---- MODULE Spec2Model ----
(***************************************************************************)
(* A model of src/score.py: the ScoreBoard that ingests FAHClient log      *)
(* lines and pairs work-unit assignments with completions, dumps and idle  *)
(* intervals.                                                              *)
(*                                                                         *)
(* Data representation                                                     *)
(*   - a Python attribute or regex group that is None is a key that is     *)
(*     absent from the record's DOMAIN;                                    *)
(*   - a timestamp string f'{date}T{time}' is the record [date, time];     *)
(*     a time-of-day >= DayLen is one that matches \d{2}:\d{2}:\d{2} but   *)
(*     that datetime.fromisoformat rejects (such as 25:00:00);             *)
(*   - a datetime is its ordinal date * DayLen + time, a timedelta is the  *)
(*     difference of two ordinals, and str(timedelta) is the normalised    *)
(*     pair [days, seconds] with 0 <= seconds < DayLen;                    *)
(*   - a message is a tuple of phrases and `sub in msg` is membership of   *)
(*     the phrase;                                                         *)
(*   - a float is a number of tenths;                                      *)
(*   - returned is what the last call of a method of the board gave its    *)
(*     caller: None, a value, or an exception.                             *)
(***************************************************************************)
EXTENDS Integers, Sequences, FiniteSets, TLC

VARIABLES scores, started, errors, waiting, waited, dumped, current_date,
          pc, remaining, line, exc, thrown, ingested, returned

vars == <<scores, started, errors, waiting, waited, dumped, current_date,
          pc, remaining, line, exc, thrown, ingested, returned>>

board_vars == <<scores, started, errors, waiting, waited, dumped>>

-----------------------------------------------------------------------------
(* Bounds of the model *)

\* lines ingested over the life of one board
MaxLines == 3

\* calendar dates are 1..NumDates
NumDates == 1

\* a day has DayLen units of time: the times-of-day 0..DayLen-1 are in range
DayLen == 2

-----------------------------------------------------------------------------
(* Program constants *)

FS_MAPPING == ("FS00" :> "CPU") @@ ("FS01" :> "GPU")

STR_FAILED_ASSIGNMENT == "Failed to get assignment"
STR_DUMPED == "Server did not like results, dumping"

-----------------------------------------------------------------------------
(* Python helpers *)

Has(r, k) == k \in DOMAIN r

Put(f, k, v) == [x \in (DOMAIN f) \cup {k} |-> IF x = k THEN v ELSE f[x]]

Del(f, k) == [x \in (DOMAIN f) \ {k} |-> f[x]]

Get(f, k, d) == IF k \in DOMAIN f THEN f[k] ELSE d

RemoveAt(s, k) == SubSeq(s, 1, k - 1) \o SubSeq(s, k + 1, Len(s))

Contains(sub, msg) == \E k \in DOMAIN msg : msg[k] = sub

EmptyDict == <<>>

Dates == 1 .. NumDates

ValidTimes == 0 .. (DayLen - 1)

\* the lines carry the times-of-day 0 and 1, which are in range, and this
\* one, which is not
BadTime == DayLen

\* datetime.fromisoformat raises ValueError on an out-of-range field
IsIsoformat(ts) == ts.time \in ValidTimes

fromisoformat(ts) == ts.date * DayLen + ts.time

\* str(timedelta): days may be negative, seconds never are
TimedeltaStr(diff) == [days |-> diff \div DayLen, seconds |-> diff % DayLen]

TimedeltaOf(str) == str.days * DayLen + str.seconds

\* ast.literal_eval of the text captured by [\d\.]+
PointsTexts == {"0.5", "2", "1.2.3"}

IsLiteral(text) == text \in {"0.5", "2"}

literal_eval(text) == CASE text = "0.5" -> [tenths |-> 5]
                        [] text = "2"   -> [tenths |-> 20]

-----------------------------------------------------------------------------
(* The board as a value, and the outcome of a handler *)

Board == [scores |-> scores, started |-> started, errors |-> errors,
          waiting |-> waiting, waited |-> waited, dumped |-> dumped]

Return(B) == [board |-> B, exc |-> FALSE]

Raise(B) == [board |-> B, exc |-> TRUE]

generate_timestamp(cd, time) == [date |-> cd, time |-> time]

ScoreEntry(start, project, slot, unit) ==
    [start |-> start, project |-> project, slot |-> slot, unit |-> unit]

\* ScoreEntry.calculate_duration, applied to an entry whose end is set
CanCalculateDuration(e) == IsIsoformat(e.end) /\ IsIsoformat(e.start)

calculate_duration(e) ==
    LET diff == fromisoformat(e.end) - fromisoformat(e.start)
    IN  Put(e, "duration", TimedeltaStr(diff))

-----------------------------------------------------------------------------
(* ScoreBoard handlers.  B is the board before the line, cd the current    *)
(* date, info the groupdict of the matched line.  The result carries the   *)
(* board as the handler left it and whether the handler raised.            *)

\* the condition of the scans of _handle_end and _handle_msg
Matches(B, slot, unit) ==
    {k \in DOMAIN B.started : B.started[k].slot = slot /\ B.started[k].unit = unit}

\* a plausible slip: the duplicate test also compares the start timestamp
Same_ComparesStart(B, entry) ==
    {k \in DOMAIN B.started : /\ B.started[k].slot = entry.slot
                              /\ B.started[k].project = entry.project
                              /\ B.started[k].unit = entry.unit
                              /\ B.started[k].start = entry.start}

\* the list `same` of _handle_start
Same(B, entry) ==
    {k \in DOMAIN B.started : /\ B.started[k].slot = entry.slot
                              /\ B.started[k].project = entry.project
                              /\ B.started[k].unit = entry.unit}

Max(S) == CHOOSE k \in S : \A j \in S : j <= k

Min(S) == CHOOSE k \in S : \A j \in S : k <= j

\* a plausible slip: every diagnostic that has a message is recorded
_handle_job_msg_EveryMessage(B, cd, info) ==
    IF ~Has(info, "job_msg_msg")
    THEN Raise(B)
    ELSE Return([B EXCEPT !.errors = Append(@, generate_timestamp(cd, info.time))])

_handle_job_msg(B, cd, info) ==
    IF ~Has(info, "job_msg_msg")
    THEN Raise(B)
    ELSE IF Contains("Program", info.job_msg_msg)
         THEN Return([B EXCEPT !.errors = Append(@, generate_timestamp(cd, info.time))])
         ELSE Return(B)

\* a plausible slip: the idle marker is not deleted
CloseIdle_KeepsMarker(B, cd, info) ==
    LET timestamp == generate_timestamp(cd, info.time)
        slot == info.slot
    IN  IF ~IsIsoformat(timestamp)
        THEN Raise(B)
        ELSE LET duration == fromisoformat(timestamp) - B.waiting[slot]
                 w1 == IF cd \notin DOMAIN B.waited
                       THEN Put(B.waited, cd, EmptyDict)
                       ELSE B.waited
             IN  IF slot \notin DOMAIN FS_MAPPING
                 THEN Raise([B EXCEPT !.waited = w1])
                 ELSE LET fs == FS_MAPPING[slot]
                          w == Get(w1[cd], fs, 0) + duration
                      IN  Return([B EXCEPT !.waited = Put(w1, cd, Put(w1[cd], fs, w))])

\* the body of `if slot in self.waiting` of _handle_start
CloseIdle(B, cd, info) ==
    LET timestamp == generate_timestamp(cd, info.time)
        slot == info.slot
    IN  IF ~IsIsoformat(timestamp)
        THEN Raise(B)
        ELSE LET duration == fromisoformat(timestamp) - B.waiting[slot]
                 w1 == IF cd \notin DOMAIN B.waited
                       THEN Put(B.waited, cd, EmptyDict)
                       ELSE B.waited
             IN  IF slot \notin DOMAIN FS_MAPPING
                 THEN Raise([B EXCEPT !.waited = w1])
                 ELSE LET fs == FS_MAPPING[slot]
                          w == Get(w1[cd], fs, 0) + duration
                      IN  Return([B EXCEPT
                              !.waited = Put(w1, cd, Put(w1[cd], fs, w)),
                              !.waiting = Del(@, slot)])

_handle_start(B, cd, info) ==
    LET timestamp == generate_timestamp(cd, info.time)
        slot == info.slot
        entry == ScoreEntry(timestamp, info.project_id, slot, info.unit)
        Insert(b) == IF Same(b, entry) = {}
                     THEN [b EXCEPT !.started = Append(@, entry)]
                     ELSE b
    IN  IF slot \in DOMAIN B.waiting
        THEN LET r == CloseIdle(B, cd, info)
             IN  IF r.exc THEN r ELSE Return(Insert(r.board))
        ELSE Return(Insert(B))

\* a plausible slip: no early return when nothing was found, so that
\* self.started.remove(None) raises
_handle_end_NoEarlyReturn(B, cd, info) ==
    LET end == generate_timestamp(cd, info.time)
        found == Matches(B, info.slot, info.unit)
    IN  IF ~IsLiteral(info.points)
        THEN Raise(B)
        ELSE IF found = {}
             THEN Raise(B)
             ELSE LET k == Max(found)
                      removed == [B EXCEPT !.started = RemoveAt(@, k)]
                      e == Put(Put(B.started[k], "end", end),
                               "points", literal_eval(info.points))
                  IN  IF ~CanCalculateDuration(e)
                      THEN Raise(removed)
                      ELSE Return([removed EXCEPT
                               !.scores = Append(@, calculate_duration(e))])

\* a plausible slip: the completed record is put at the head of scores
_handle_end_Prepends(B, cd, info) ==
    LET end == generate_timestamp(cd, info.time)
        found == Matches(B, info.slot, info.unit)
    IN  IF ~IsLiteral(info.points)
        THEN Raise(B)
        ELSE IF found = {}
             THEN Return(B)
             ELSE LET k == Max(found)
                      removed == [B EXCEPT !.started = RemoveAt(@, k)]
                      e == Put(Put(B.started[k], "end", end),
                               "points", literal_eval(info.points))
                  IN  IF ~CanCalculateDuration(e)
                      THEN Raise(removed)
                      ELSE Return([removed EXCEPT
                               !.scores = <<calculate_duration(e)>> \o @])

_handle_end(B, cd, info) ==
    LET end == generate_timestamp(cd, info.time)
        found == Matches(B, info.slot, info.unit)
    IN  IF ~IsLiteral(info.points)
        THEN Raise(B)
        ELSE IF found = {}
             THEN Return(B)
             ELSE LET k == Max(found)
                      removed == [B EXCEPT !.started = RemoveAt(@, k)]
                      e == Put(Put(B.started[k], "end", end),
                               "points", literal_eval(info.points))
                  IN  IF ~CanCalculateDuration(e)
                      THEN Raise(removed)
                      ELSE Return([removed EXCEPT
                               !.scores = Append(@, calculate_duration(e))])

\* the first branch of _handle_msg
MarkIdle(B, cd, info) ==
    LET timestamp == generate_timestamp(cd, info.time)
    IN  IF ~IsIsoformat(timestamp)
        THEN Raise(B)
        ELSE Return([B EXCEPT !.waiting = Put(@, info.slot, fromisoformat(timestamp))])

\* a plausible slip: the dump is counted but the record stays in flight
Dump_KeepsRecord(B, cd, info) ==
    LET slot == info.slot
        found == Matches(B, slot, info.unit)
    IN  IF found = {}
        THEN Return(B)
        ELSE LET d1 == IF cd \notin DOMAIN B.dumped
                       THEN Put(B.dumped, cd, EmptyDict)
                       ELSE B.dumped
             IN  IF slot \notin DOMAIN FS_MAPPING
                 THEN Raise([B EXCEPT !.dumped = d1])
                 ELSE LET key == FS_MAPPING[slot]
                          n_dumped == Get(d1[cd], key, 0) + 1
                      IN  Return([B EXCEPT
                              !.dumped = Put(d1, cd, Put(d1[cd], key, n_dumped))])

\* a plausible slip: the scan has no break, so that the last match is taken
Dump_TakesLast(B, cd, info) ==
    LET slot == info.slot
        found == Matches(B, slot, info.unit)
    IN  IF found = {}
        THEN Return(B)
        ELSE LET k == Max(found)
                 d1 == IF cd \notin DOMAIN B.dumped
                       THEN Put(B.dumped, cd, EmptyDict)
                       ELSE B.dumped
             IN  IF slot \notin DOMAIN FS_MAPPING
                 THEN Raise([B EXCEPT !.dumped = d1])
                 ELSE LET key == FS_MAPPING[slot]
                          n_dumped == Get(d1[cd], key, 0) + 1
                      IN  Return([B EXCEPT
                              !.dumped = Put(d1, cd, Put(d1[cd], key, n_dumped)),
                              !.started = RemoveAt(@, k)])

\* the second branch of _handle_msg: the scan with its break
Dump(B, cd, info) ==
    LET slot == info.slot
        found == Matches(B, slot, info.unit)
    IN  IF found = {}
        THEN Return(B)
        ELSE LET k == Min(found)
                 d1 == IF cd \notin DOMAIN B.dumped
                       THEN Put(B.dumped, cd, EmptyDict)
                       ELSE B.dumped
             IN  IF slot \notin DOMAIN FS_MAPPING
                 THEN Raise([B EXCEPT !.dumped = d1])
                 ELSE LET key == FS_MAPPING[slot]
                          n_dumped == Get(d1[cd], key, 0) + 1
                      IN  Return([B EXCEPT
                              !.dumped = Put(d1, cd, Put(d1[cd], key, n_dumped)),
                              !.started = RemoveAt(@, k)])

\* a plausible slip: every failed-assignment message restarts the clock
_handle_msg_RestartsClock(B, cd, info) ==
    IF Contains(STR_FAILED_ASSIGNMENT, info.msg)
    THEN MarkIdle(B, cd, info)
    ELSE IF Contains(STR_DUMPED, info.msg)
         THEN Dump(B, cd, info)
         ELSE Return(B)

_handle_msg(B, cd, info) ==
    IF Contains(STR_FAILED_ASSIGNMENT, info.msg) /\ info.slot \notin DOMAIN B.waiting
    THEN MarkIdle(B, cd, info)
    ELSE IF Contains(STR_DUMPED, info.msg)
         THEN Dump(B, cd, info)
         ELSE Return(B)

\* LINE_REGEX.match(line) is None for a line outside the grammar
NoMatch == [nomatch |-> TRUE]

handle_line(B, cd, ln) ==
    IF Has(ln, "nomatch")
    THEN Raise(B)
    ELSE IF Has(ln, "project_id") THEN _handle_start(B, cd, ln)
    ELSE IF Has(ln, "points") THEN _handle_end(B, cd, ln)
    ELSE IF Has(ln, "job_msg") THEN _handle_job_msg(B, cd, ln)
    ELSE IF Has(ln, "msg") THEN _handle_msg(B, cd, ln)
    ELSE Return(B)

-----------------------------------------------------------------------------
(* Inputs: the lines a log file can hold, as LINE_REGEX classifies them *)

Slots == {"FS00", "FS01", "FS02"}

\* assignment lines <<slot, unit, project, time>>: two projects on one
\* (slot, unit), a GPU slot, a slot without a slot type, a repeated
\* assignment at another time and an out-of-range time
StartCases ==
    {<<"FS00", "WU00", "100", 0>>, <<"FS00", "WU00", "100", 1>>,
     <<"FS00", "WU00", "200", 0>>, <<"FS01", "WU01", "100", 1>>,
     <<"FS02", "WU00", "100", 0>>, <<"FS00", "WU00", "100", BadTime>>}

\* completion lines <<slot, unit, time, points>>: the (slot, unit) pairs of
\* the assignments and one that shares only the slot or the unit with them,
\* a credit value that does not parse and an out-of-range time
EndCases ==
    {<<"FS00", "WU00", 0, "0.5">>, <<"FS00", "WU00", 1, "0.5">>,
     <<"FS00", "WU00", 1, "2">>, <<"FS00", "WU00", 0, "1.2.3">>,
     <<"FS00", "WU00", BadTime, "0.5">>, <<"FS01", "WU01", 1, "0.5">>,
     <<"FS02", "WU00", 1, "0.5">>, <<"FS00", "WU01", 1, "0.5">>}

\* free-text messages <<slot, unit, time, msg>>
MsgCases ==
    {<<"FS00", "WU00", 0, <<STR_FAILED_ASSIGNMENT>> >>,
     <<"FS00", "WU00", 1, <<STR_FAILED_ASSIGNMENT>> >>,
     <<"FS01", "WU00", 0, <<STR_FAILED_ASSIGNMENT>> >>,
     <<"FS02", "WU00", 0, <<STR_FAILED_ASSIGNMENT>> >>,
     <<"FS00", "WU00", BadTime, <<STR_FAILED_ASSIGNMENT>> >>,
     <<"FS00", "WU00", 0, <<STR_DUMPED>> >>,
     <<"FS01", "WU01", 0, <<STR_DUMPED>> >>,
     <<"FS02", "WU00", 0, <<STR_DUMPED>> >>,
     <<"FS00", "WU01", 0, <<STR_DUMPED>> >>,
     <<"FS00", "WU00", 1, <<STR_FAILED_ASSIGNMENT, STR_DUMPED>> >>,
     <<"FS00", "WU00", 1, <<"Connecting to server">> >>}

StartLines ==
    {[time |-> c[4], unit |-> c[2], slot |-> c[1], job_msg |-> <<"Project">>,
      project_id |-> c[3]] : c \in StartCases}

EndLines ==
    {[time |-> c[3], unit |-> c[2], slot |-> c[1], points |-> c[4]] : c \in EndCases}

JobMsgLines ==
    {[time |-> 0, unit |-> "WU00", slot |-> "FS00", job_msg |-> <<"ERROR">>,
      job_msg_msg |-> m] : m \in {<<"Program", "exited abnormally">>, <<"Bad work unit">>}}
    \cup {[time |-> 0, unit |-> "WU00", slot |-> "FS00", job_msg |-> <<"ERROR">>]}

MsgLines ==
    {[time |-> c[3], unit |-> c[2], slot |-> c[1], msg |-> c[4]] : c \in MsgCases}

\* a line that matches with every optional group unset, or not at all
OtherLines == {[time |-> 0, unit |-> "WU00", slot |-> "FS00"], NoMatch}

Lines == StartLines \cup EndLines \cup JobMsgLines \cup MsgLines \cup OtherLines

\* file names: the stem's date when DATE_REGEX matches, no date when it
\* does not (names whose digits are no calendar date are left out)
FileNames == {[date |-> d] : d \in Dates} \cup {[other |-> TRUE]}

-----------------------------------------------------------------------------
(* ScoreBoard.__init__ *)

NoDate == 0

\* the loop variable of read_log outside the loop
NoLine == <<>>

\* what a call that returns nothing gives its caller
None == [none |-> TRUE]

Init ==
    /\ scores = <<>>
    /\ started = <<>>
    /\ errors = <<>>
    /\ waiting = EmptyDict
    /\ waited = EmptyDict
    /\ dumped = EmptyDict
    /\ current_date = NoDate
    /\ pc = "idle"
    /\ remaining = 0
    /\ line = NoLine
    /\ exc = FALSE
    /\ thrown = FALSE
    /\ ingested = 0
    /\ returned = None

(* ScoreBoard.set_current_date_from_file *)
set_current_date_from_file(name, today) ==
    IF ~Has(name, "date") THEN today ELSE name.date

(* ScoreBoard.read_log up to the loop: a file of n lines is read and the   *)
(* date is taken from its name.                                            *)
ReadLog(name, today, n) ==
    /\ pc = "idle"
    /\ current_date' = set_current_date_from_file(name, today)
    /\ remaining' = n
    /\ line' = NoLine
    /\ pc' = "loop"
    /\ exc' = FALSE
    /\ thrown' = FALSE
    /\ returned' = None
    /\ UNCHANGED <<board_vars, ingested>>

\* a plausible slip: no try/except around handle_line, so that the first
\* line that raises ends the call with the exception
Iterate_NoTry(ln) ==
    /\ pc = "loop"
    /\ remaining > 0
    /\ LET r == handle_line(Board, current_date, ln)
       IN  /\ scores' = r.board.scores
           /\ started' = r.board.started
           /\ errors' = r.board.errors
           /\ waiting' = r.board.waiting
           /\ waited' = r.board.waited
           /\ dumped' = r.board.dumped
           /\ exc' = FALSE
           /\ thrown' = r.exc
           /\ pc' = IF r.exc THEN "idle" ELSE "loop"
           /\ line' = IF r.exc THEN NoLine ELSE ln
           /\ remaining' = IF r.exc THEN 0 ELSE remaining - 1
    /\ ingested' = ingested + 1
    /\ UNCHANGED <<current_date, returned>>

(* one iteration of the loop of read_log: try handle_line, except pass *)
Iterate(ln) ==
    /\ pc = "loop"
    /\ remaining > 0
    /\ LET r == handle_line(Board, current_date, ln)
       IN  /\ scores' = r.board.scores
           /\ started' = r.board.started
           /\ errors' = r.board.errors
           /\ waiting' = r.board.waiting
           /\ waited' = r.board.waited
           /\ dumped' = r.board.dumped
           /\ exc' = r.exc
    /\ line' = ln
    /\ remaining' = remaining - 1
    /\ ingested' = ingested + 1
    /\ UNCHANGED <<current_date, pc, thrown, returned>>

(* the loop of read_log is exhausted and the call returns *)
ReadLogReturn ==
    /\ pc = "loop"
    /\ remaining = 0
    /\ pc' = "idle"
    /\ line' = NoLine
    /\ exc' = FALSE
    /\ remaining' = 0
    /\ UNCHANGED <<board_vars, current_date, thrown, ingested, returned>>

Call == \E name \in FileNames, today \in Dates, n \in 0 .. (MaxLines - ingested) :
            ReadLog(name, today, n)

StartLine == \E ln \in StartLines : Iterate(ln)

EndLine == \E ln \in EndLines : Iterate(ln)

JobMsgLine == \E ln \in JobMsgLines : Iterate(ln)

MsgLine == \E ln \in MsgLines : Iterate(ln)

OtherLine == \E ln \in OtherLines : Iterate(ln)

Next ==
    \/ Call
    \/ StartLine
    \/ EndLine
    \/ JobMsgLine
    \/ MsgLine
    \/ OtherLine
    \/ ReadLogReturn

Spec == Init /\ [][Next]_vars

\* the lines of the files of FairSpec: those about unit WU00 at time 0 or
\* at the out-of-range time, which hold a line that returns and a line that
\* raises for every handler, and the line outside the grammar
LoopLines ==
    {ln \in Lines : Has(ln, "nomatch") \/ (ln.unit = "WU00" /\ ln.time \in {0, BadTime})}

LoopLine == \E ln \in LoopLines : Iterate(ln)

NextLoop == Call \/ LoopLine \/ ReadLogReturn

\* a call of read_log that has started runs on: the code is synchronous
FairSpec == Init /\ [][NextLoop]_vars /\ WF_vars(LoopLine \/ ReadLogReturn)

-----------------------------------------------------------------------------
(* The read operations of the board, and the specification of a board that *)
(* ingests files and is read between them.                                 *)

\* lines ingested over the life of one board that is also read
MaxQueryLines == 4

\* str(points) of the values literal_eval gives: a float or an int
str(points) == CASE points.tenths = 5  -> "0.5"
                 [] points.tenths = 20 -> "2"

Value(op, v) == [op |-> op, value |-> v]

Raised(op, e) == [op |-> op, raised |-> e]

\* ScoreEntry.__str__: the fields that '\t'.join puts on one line
ScoreEntry_str(e) ==
    <<e.start, e.end, e.duration, e.project, FS_MAPPING[e.slot], e.unit, str(e.points)>>

\* a plausible slip: FS_MAPPING.get(slot, slot), which renders a slot
\* without a slot type under its id and raises nothing
ScoreBoard_str_FallsBack(B) ==
    Value("__str__",
          [k \in DOMAIN B.scores |->
              LET e == B.scores[k]
              IN  <<e.start, e.end, e.duration, e.project,
                    Get(FS_MAPPING, e.slot, e.slot), e.unit, str(e.points)>>])

\* ScoreBoard.__str__: the lines that '\n'.join puts together; FS_MAPPING[slot]
\* raises KeyError for a record whose slot has no slot type
ScoreBoard_str(B) ==
    IF \E k \in DOMAIN B.scores : B.scores[k].slot \notin DOMAIN FS_MAPPING
    THEN Raised("__str__", "KeyError")
    ELSE Value("__str__", [k \in DOMAIN B.scores |-> ScoreEntry_str(B.scores[k])])

\* the loop of total_points over the first n completed records
RECURSIVE Total(_, _)
Total(B, n) == IF n = 0 THEN 0 ELSE Total(B, n - 1) + B.scores[n].points.tenths

\* a plausible slip: `total = entry.points` for `total += entry.points`
total_points_Overwrites(B) ==
    Value("total_points",
          [tenths |-> IF B.scores = <<>> THEN 0
                      ELSE B.scores[Len(B.scores)].points.tenths])

total_points(B) == Value("total_points", [tenths |-> Total(B, Len(B.scores))])

\* a call of total_points between two ingestions
TotalPoints ==
    /\ pc = "idle"
    /\ returned' = total_points(Board)
    /\ UNCHANGED <<board_vars, current_date, pc, remaining, line, exc, thrown, ingested>>

\* a call of str(board) between two ingestions
Render ==
    /\ pc = "idle"
    /\ returned' = ScoreBoard_str(Board)
    /\ UNCHANGED <<board_vars, current_date, pc, remaining, line, exc, thrown, ingested>>

\* the lines of the files of QuerySpec: two projects on one (slot, unit) of
\* a slot with a slot type and of one without, their completions with two
\* credit values, their dumps, and a failed assignment on the slot without
\* a slot type
QueryLines ==
    {[time |-> 0, unit |-> "WU00", slot |-> s, job_msg |-> <<"Project">>,
      project_id |-> p] : s \in {"FS00", "FS02"}, p \in {"100", "200"}}
    \cup {[time |-> 1, unit |-> "WU00", slot |-> "FS00", points |-> x] : x \in {"0.5", "2"}}
    \cup {[time |-> 1, unit |-> "WU00", slot |-> "FS02", points |-> "0.5"]}
    \cup {[time |-> 0, unit |-> "WU00", slot |-> s, msg |-> <<STR_DUMPED>>] :
            s \in {"FS00", "FS02"}}
    \cup {[time |-> 0, unit |-> "WU00", slot |-> "FS02", msg |-> <<STR_FAILED_ASSIGNMENT>>]}

QueryLine == \E ln \in QueryLines : Iterate(ln)

QueryCall == \E name \in FileNames, today \in Dates, n \in 0 .. (MaxQueryLines - ingested) :
                 ReadLog(name, today, n)

QueryNext == QueryCall \/ QueryLine \/ ReadLogReturn \/ TotalPoints \/ Render

QuerySpec == Init /\ [][QueryNext]_vars

\* the loop of read_log over the lines of a file, as a function of the
\* board: the board that handle_line left is kept whether or not it raised
RECURSIVE read_lines(_, _, _)
read_lines(B, cd, lines) ==
    IF lines = <<>> THEN B
    ELSE read_lines(handle_line(B, cd, Head(lines)).board, cd, Tail(lines))

\* the board of ScoreBoard.__init__
Fresh == [scores |-> <<>>, started |-> <<>>, errors |-> <<>>,
          waiting |-> EmptyDict, waited |-> EmptyDict, dumped |-> EmptyDict]

\* the files of one or two lines
Files == {<<a>> : a \in Lines} \cup {<<a, b>> : a \in Lines, b \in Lines}

-----------------------------------------------------------------------------
(* Vocabulary of the properties *)

\* the step is one iteration of the loop; line' is the line it processed
Processed == pc = "loop" /\ remaining' = remaining - 1

EntryOf(ln) ==
    ScoreEntry(generate_timestamp(current_date, ln.time), ln.project_id, ln.slot, ln.unit)

SameTriple(a, b) == a.slot = b.slot /\ a.project = b.project /\ a.unit = b.unit

IsAssignment(ln) == Has(ln, "project_id")

\* the positions of the in-flight records of a (slot, unit)
InFlight(slot, unit) ==
    {k \in DOMAIN started : started[k].slot = slot /\ started[k].unit = unit}

\* the positions of the in-flight records with the triple of an assignment
InFlightTriple(ln) ==
    {k \in DOMAIN started : SameTriple(started[k], EntryOf(ln))}

IsMsg(ln) == Has(ln, "msg")

\* a message is a failed-assignment message when it carries that marker
IsFailedAssignment(ln) == IsMsg(ln) /\ Contains(STR_FAILED_ASSIGNMENT, ln.msg)

\* a message is a dump message when it carries the dump marker and is not
\* taken as the failed-assignment message that starts an idle interval
IsDump(ln) ==
    /\ IsMsg(ln)
    /\ Contains(STR_DUMPED, ln.msg)
    /\ ~(IsFailedAssignment(ln) /\ ln.slot \notin DOMAIN waiting)

SlotTypes == {"CPU", "GPU"}

\* an entry of idle_total or dumped_count, 0 where there is none
Entry(m, d, fs) == IF d \in DOMAIN m /\ fs \in DOMAIN m[d] THEN m[d][fs] ELSE 0

HasEntry(m, d, fs) == d \in DOMAIN m /\ fs \in DOMAIN m[d]

\* every entry of m but that of (d, fs) is as it was
OtherEntriesUnchanged(m, mNext, d, fs) ==
    \A dd \in Dates, ff \in SlotTypes :
        <<dd, ff>> # <<d, fs>> =>
            /\ HasEntry(mNext, dd, ff) <=> HasEntry(m, dd, ff)
            /\ Entry(mNext, dd, ff) = Entry(m, dd, ff)

\* a completion event carries a credit value that parses
IsCompletion(ln) == Has(ln, "points") /\ IsLiteral(ln.points)

InFlightFields == {"start", "project", "slot", "unit"}

CompletedFields == InFlightFields \cup {"end", "points", "duration"}

\* the completion of ln took the k-th in-flight record and appended it
CompletedFrom(ln, k) ==
    /\ started' = RemoveAt(started, k)
    /\ Len(scores') = Len(scores) + 1
    /\ SubSeq(scores', 1, Len(scores)) = scores
    /\ LET old == started[k]
           new == scores'[Len(scores')]
       IN  /\ DOMAIN new = CompletedFields
           /\ new.end = generate_timestamp(current_date, ln.time)
           /\ new.points = literal_eval(ln.points)
           /\ new.duration.seconds \in 0 .. (DayLen - 1)
           /\ TimedeltaOf(new.duration) = fromisoformat(new.end) - fromisoformat(old.start)
           /\ \A f \in InFlightFields : new[f] = old[f]

-----------------------------------------------------------------------------
(* C1: a completion event for a (slot, unit) that has an in-flight record  *)
(* moves exactly one such record to completed, with the end timestamp of   *)
(* the line, the parsed points and duration = end - start, and changes     *)
(* neither the idle markers, the idle totals, the dump counts nor errors.  *)
C1_CompletionMovesRecord ==
    [][(/\ Processed
        /\ IsCompletion(line')
        /\ InFlight(line'.slot, line'.unit) # {})
       => /\ \E k \in InFlight(line'.slot, line'.unit) : CompletedFrom(line', k)
          /\ UNCHANGED <<waiting, waited, dumped, errors>>]_vars

(* C1 for the lines whose time-of-day is in range and the records whose    *)
(* start is: the part of C1 the code does keep.                            *)
C1_WellFormedCompletion ==
    [][(/\ Processed
        /\ IsCompletion(line')
        /\ line'.time \in ValidTimes
        /\ InFlight(line'.slot, line'.unit) # {}
        /\ \A k \in InFlight(line'.slot, line'.unit) : IsIsoformat(started[k].start))
       => /\ \E k \in InFlight(line'.slot, line'.unit) : CompletedFrom(line', k)
          /\ UNCHANGED <<waiting, waited, dumped, errors>>]_vars

(* C2: in_flight never holds two records with the same (slot, project,     *)
(* unit) triple.                                                           *)
C2_OneInFlightPerTriple ==
    \A i, j \in DOMAIN started : SameTriple(started[i], started[j]) => i = j

\* the last line repeated the assignment of a record that an earlier line
\* with another time-of-day had put in flight
C2_Witness ==
    /\ pc = "loop"
    /\ Has(line, "project_id")
    /\ \E k \in DOMAIN started :
          /\ SameTriple(started[k], EntryOf(line))
          /\ started[k].start # EntryOf(line).start

(* C3: an assignment event whose triple is already in flight changes no    *)
(* component of the board, also when its slot is marked idle.              *)
C3_DuplicateAssignmentDoesNothing ==
    [][(/\ Processed
        /\ IsAssignment(line')
        /\ InFlightTriple(line') # {})
       => UNCHANGED board_vars]_vars

(* C4: a line whose processing raised leaves the whole board as it was.    *)
C4_RaisingLineHasNoEffect ==
    [][(Processed /\ exc') => UNCHANGED board_vars]_vars

(* C5: within one call of read_log every step handles exactly the next     *)
(* line, whether or not the line before raised; the call returns after the *)
(* last line and no exception of a line reaches the caller.                *)
C5_EveryLineIsProcessed ==
    /\ [][pc = "loop" =>
            \/ /\ remaining > 0
               /\ remaining' = remaining - 1
               /\ pc' = "loop"
               /\ line' \in LoopLines
            \/ /\ remaining = 0
               /\ pc' = "idle"]_vars
    /\ [](~thrown)
    /\ [](pc = "loop" => <>(pc = "idle"))

\* a line has raised and the loop goes on with the lines after it
C5_Witness == pc = "loop" /\ exc /\ remaining > 0

(* C6: a completion or dump event for a (slot, unit) without an in-flight  *)
(* record changes nothing on the board and raises nothing.                 *)
C6_UnmatchedEventIsNoOp ==
    [][(/\ Processed
        /\ IsCompletion(line') \/ IsDump(line')
        /\ InFlight(line'.slot, line'.unit) = {})
       => UNCHANGED board_vars /\ ~exc']_vars

\* the last line was a completion or a dump for a (slot, unit) that is not
\* in flight, while another record is
C6_Witness ==
    /\ pc = "loop"
    /\ IsCompletion(line) \/ IsDump(line)
    /\ InFlight(line.slot, line.unit) = {}
    /\ started # <<>>

\* the idle markers of the slots other than s are as they were
OtherMarkersUnchanged(s) ==
    \A o \in Slots \ {s} :
        /\ o \in DOMAIN waiting' <=> o \in DOMAIN waiting
        /\ o \in DOMAIN waiting => waiting'[o] = waiting[o]

\* the assignment line ln closed the idle interval of its slot
IdleIntervalClosed(ln) ==
    /\ ln.slot \notin DOMAIN waiting'
    /\ OtherMarkersUnchanged(ln.slot)
    /\ HasEntry(waited', current_date, FS_MAPPING[ln.slot])
    /\ Entry(waited', current_date, FS_MAPPING[ln.slot])
         = Entry(waited, current_date, FS_MAPPING[ln.slot])
           + fromisoformat(generate_timestamp(current_date, ln.time))
           - waiting[ln.slot]
    /\ OtherEntriesUnchanged(waited, waited', current_date, FS_MAPPING[ln.slot])

\* the failed-assignment line ln marked its slot idle at its timestamp
IdleMarked(ln) ==
    /\ ln.slot \in DOMAIN waiting'
    /\ waiting'[ln.slot] = fromisoformat(generate_timestamp(current_date, ln.time))
    /\ OtherMarkersUnchanged(ln.slot)
    /\ UNCHANGED <<scores, started, errors, waited, dumped>>

(* C7 as stated: an assignment on a slot that a failed-assignment message  *)
(* marked idle adds the elapsed time to the idle total of the current date *)
(* and the slot's type and clears the marker, whatever the slot and the    *)
(* time-of-day; nothing else of the idle state changes.                    *)
C7_AssignmentClosesIdleInterval ==
    [][(/\ Processed
        /\ IsAssignment(line')
        /\ line'.slot \in DOMAIN waiting)
       => IdleIntervalClosed(line')]_vars

(* C7 amended: a failed-assignment message with a time-of-day in range on  *)
(* a slot that is not idle marks the slot at its timestamp t1, and a later *)
(* assignment at t2, with a time-of-day in range, on a slot that has a     *)
(* slot type adds exactly t2 - t1 to the idle total of the current date    *)
(* and that type and clears the marker; no other marker or total changes.  *)
C7_MappedAssignmentClosesIdleInterval ==
    [][/\ (/\ Processed
           /\ IsFailedAssignment(line')
           /\ line'.time \in ValidTimes
           /\ line'.slot \notin DOMAIN waiting)
          => IdleMarked(line')
       /\ (/\ Processed
           /\ IsAssignment(line')
           /\ line'.slot \in DOMAIN waiting
           /\ line'.slot \in DOMAIN FS_MAPPING
           /\ line'.time \in ValidTimes)
          => IdleIntervalClosed(line')]_vars

\* an assignment has closed an idle interval of non-zero length on FS01
\* while FS00 stays marked
C7_Witness ==
    /\ pc = "loop"
    /\ IsAssignment(line)
    /\ line.slot = "FS01"
    /\ "FS01" \notin DOMAIN waiting
    /\ "FS00" \in DOMAIN waiting
    /\ HasEntry(waited, current_date, "GPU")
    /\ Entry(waited, current_date, "GPU") # 0

(* C8: an idle marker that is set keeps its value until it is cleared; it  *)
(* is set only by a failed-assignment message on its slot and cleared only *)
(* by an assignment on its slot.                                           *)
C8_IdleMarkerKeepsFirstFailure ==
    [][\A s \in Slots :
        /\ (s \in DOMAIN waiting /\ s \in DOMAIN waiting') => waiting'[s] = waiting[s]
        /\ (s \notin DOMAIN waiting /\ s \in DOMAIN waiting')
            => Processed /\ IsFailedAssignment(line') /\ line'.slot = s
        /\ (s \in DOMAIN waiting /\ s \notin DOMAIN waiting')
            => Processed /\ IsAssignment(line') /\ line'.slot = s]_vars

\* the last line was a failed-assignment message on a slot whose marker
\* holds the time of an earlier failure
C8_Witness ==
    /\ pc = "loop"
    /\ IsFailedAssignment(line)
    /\ line.time \in ValidTimes
    /\ line.slot \in DOMAIN waiting
    /\ waiting[line.slot] # fromisoformat(generate_timestamp(current_date, line.time))

\* the dump line ln removed one in-flight record of its (slot, unit) and
\* counted it
Dumped(ln) ==
    /\ Len(started') = Len(started) - 1
    /\ \E k \in InFlight(ln.slot, ln.unit) : started' = RemoveAt(started, k)
    /\ HasEntry(dumped', current_date, FS_MAPPING[ln.slot])
    /\ Entry(dumped', current_date, FS_MAPPING[ln.slot])
         = Entry(dumped, current_date, FS_MAPPING[ln.slot]) + 1
    /\ OtherEntriesUnchanged(dumped, dumped', current_date, FS_MAPPING[ln.slot])
    /\ scores' = scores

(* C9 as stated: a dump message for a (slot, unit) in flight removes one   *)
(* record, counts one dump for the slot's type and leaves completed alone, *)
(* for every slot id an in-flight record can have.                         *)
C9_DumpRemovesAndCounts ==
    [][(/\ Processed
        /\ IsDump(line')
        /\ InFlight(line'.slot, line'.unit) # {})
       => Dumped(line')]_vars

(* C9 amended: the same for every slot id that has a slot type (FS00 and   *)
(* FS01); for any other slot id the dump line raises, no record leaves     *)
(* in_flight and completed is unchanged.                                   *)
C9_MappedDumpRemovesAndCounts ==
    [][(/\ Processed
        /\ IsDump(line')
        /\ InFlight(line'.slot, line'.unit) # {})
       => IF line'.slot \in DOMAIN FS_MAPPING
          THEN Dumped(line')
          ELSE exc' /\ UNCHANGED <<started, scores>>]_vars

\* a dump has removed one of two in-flight records of its (slot, unit)
C9_Witness ==
    /\ pc = "loop"
    /\ IsMsg(line)
    /\ Contains(STR_DUMPED, line.msg)
    /\ InFlight(line.slot, line.unit) # {}
    /\ HasEntry(dumped, current_date, "CPU")
    /\ Entry(dumped, current_date, "CPU") = 1

(* C10: every in-flight record has end, points and duration unset; every   *)
(* completed record has them set, with duration = end - start >= 0.        *)
C10_RecordShape ==
    /\ \A k \in DOMAIN started : DOMAIN started[k] = InFlightFields
    /\ \A k \in DOMAIN scores :
          /\ DOMAIN scores[k] = CompletedFields
          /\ TimedeltaOf(scores[k].duration)
               = fromisoformat(scores[k].end) - fromisoformat(scores[k].start)
          /\ TimedeltaOf(scores[k].duration) >= 0

-----------------------------------------------------------------------------
\* the sum of f over the set S of its arguments
RECURSIVE SumOf(_, _)
SumOf(f, S) ==
    IF S = {} THEN 0
    ELSE LET x == CHOOSE y \in S : TRUE
         IN  f[x] + SumOf(f, S \ {x})

\* the sum of the entries of dumped_count
CountOf(m) ==
    LET keys == UNION {{<<d, fs>> : fs \in DOMAIN m[d]} : d \in DOMAIN m}
    IN  SumOf([p \in keys |-> m[p[1]][p[2]]], keys)

\* the records that are in flight, completed or counted as dumped
Accounted(st, sc, du) == Len(st) + Len(sc) + CountOf(du)

\* the step is an assignment that put its record in flight
Accepted ==
    /\ Processed
    /\ IsAssignment(line')
    /\ started' = Append(started, EntryOf(line'))

(* C11: records are never lost.  The number of records in flight,          *)
(* completed or counted as dumped grows by one with every accepted         *)
(* assignment and changes in no other step, so that it always equals the   *)
(* number of accepted assignments: a record that leaves in_flight goes to  *)
(* completed or to a dump count, and to one of them only.                  *)
C11_RecordsAreNeverLost ==
    [][Accounted(started', scores', dumped')
         = Accounted(started, scores, dumped) + (IF Accepted THEN 1 ELSE 0)]_vars

(* C11 for the completions whose time-of-day is in range and whose record  *)
(* has a start in range: the part of C11 the code does keep.               *)
C11_WellFormedRecordsAreNeverLost ==
    [][(Processed /\ Has(line', "points")
          => /\ line'.time \in ValidTimes
             /\ \A k \in DOMAIN started : IsIsoformat(started[k].start))
       => Accounted(started', scores', dumped')
            = Accounted(started, scores, dumped) + (IF Accepted THEN 1 ELSE 0)]_vars


(* C12: completed is append-only.  Every step leaves completed as it was   *)
(* or appends exactly one record at its end; the records already there     *)
(* keep their place and their fields, whatever the later event.            *)
C12_CompletedIsAppendOnly ==
    [][\/ scores' = scores
       \/ /\ Len(scores') = Len(scores) + 1
          /\ SubSeq(scores', 1, Len(scores)) = scores]_vars

\* a second record of a triple has been completed after the first, with
\* another credit value
C12_Witness ==
    /\ pc = "loop"
    /\ IsCompletion(line)
    /\ Len(scores) = 2
    /\ SameTriple(scores[1], scores[2])
    /\ scores[1].points # scores[2].points


\* the sum of the points of the completed records
PointsOfCompleted ==
    SumOf([k \in DOMAIN scores |-> scores[k].points.tenths], DOMAIN scores)

\* the sum of the points column, the last of the seven, of rendered lines
PointsColumn(text) ==
    SumOf([k \in DOMAIN text |-> literal_eval(text[k][7]).tenths], DOMAIN text)

\* total_points() returns the sum of the points of the completed records
TotalIsTheSum ==
    total_points(Board) = Value("total_points", [tenths |-> PointsOfCompleted])

\* the step is a call of total_points or of str(board)
IsRead == pc = "idle" /\ pc' = "idle"

(* C13 as stated: in every reachable state total_points() returns the sum  *)
(* of the points of the completed records, render() gives lines whose      *)
(* points column has that sum, and the call changes nothing on the board.  *)
C13_TotalPointsIsTheSum ==
    /\ [](/\ TotalIsTheSum
          /\ LET r == ScoreBoard_str(Board)
             IN  Has(r, "value") /\ PointsColumn(r.value) = PointsOfCompleted)
    /\ [][IsRead => UNCHANGED <<board_vars, current_date>>]_vars

(* C13 amended: in every reachable state total_points() returns the sum of *)
(* the points of the completed records and changes nothing; render()       *)
(* raises exactly when a completed record has a slot without a slot type,  *)
(* and when it returns, the points column of its lines has that sum.       *)
C13_TotalPointsIsTheSumWhenRendered ==
    /\ [](/\ TotalIsTheSum
          /\ Has(returned, "op") /\ returned.op = "total_points"
                => returned = Value("total_points", [tenths |-> PointsOfCompleted])
          /\ LET r == ScoreBoard_str(Board)
             IN  IF \E k \in DOMAIN scores : scores[k].slot \notin DOMAIN FS_MAPPING
                 THEN Has(r, "raised")
                 ELSE Has(r, "value") /\ PointsColumn(r.value) = PointsOfCompleted)
    /\ [][IsRead => UNCHANGED <<board_vars, current_date>>]_vars

\* total_points has returned 2.5 for a board of two completed records
C13_Witness ==
    /\ pc = "idle"
    /\ Has(returned, "op")
    /\ returned.op = "total_points"
    /\ Len(scores) = 2
    /\ returned.value.tenths = 25


\* the completed records that a file added to a board
AddedCompleted(before, after) ==
    SubSeq(after.scores, Len(before.scores) + 1, Len(after.scores))

\* what a file added to the entries of idle_total or dumped_count
AddedTo(m, mAfter) ==
    [p \in Dates \X SlotTypes |-> Entry(mAfter, p[1], p[2]) - Entry(m, p[1], p[2])]

\* ingesting the file under the date d adds to the board of the state what
\* it adds to a fresh board
AddsTheSame(d, file) ==
    LET used == read_lines(Board, d, file)
        fresh == read_lines(Fresh, d, file)
    IN  /\ AddedCompleted(Board, used) = AddedCompleted(Fresh, fresh)
        /\ AddedTo(dumped, used.dumped) = AddedTo(Fresh.dumped, fresh.dumped)
        /\ AddedTo(waited, used.waited) = AddedTo(Fresh.waited, fresh.waited)

(* C14: each ingestion is independent.  On a board between two ingestions, *)
(* whatever it has ingested, a file adds the completed records, the dump   *)
(* counts and the idle durations that it adds to a fresh board.            *)
C14_IngestionIsIndependent ==
    pc = "idle" => \A d \in Dates, file \in Files : AddsTheSame(d, file)

(* C14 for a board that holds no in-flight record and no idle marker: the  *)
(* part of C14 the code does keep.                                         *)
C14_SettledBoardIsIndependent ==
    (pc = "idle" /\ started = <<>> /\ waiting = EmptyDict)
        => \A d \in Dates, file \in Files : AddsTheSame(d, file)


\* the most recently and the earliest inserted of the positions S
LastOf(S) == CHOOSE k \in S : \A j \in S : j <= k

FirstOf(S) == CHOOSE k \in S : \A j \in S : k <= j

\* several in-flight records have the (slot, unit) of the line
SeveralInFlight(ln) == Cardinality(InFlight(ln.slot, ln.unit)) >= 2

(* C15: when several in-flight records have the (slot, unit) of a          *)
(* completion event, the most recently inserted of them is completed, and  *)
(* only it; the others stay in flight in their order.                      *)
C15_CompletionTakesLastMatch ==
    [][(Processed /\ IsCompletion(line') /\ SeveralInFlight(line'))
       => CompletedFrom(line', LastOf(InFlight(line'.slot, line'.unit)))]_vars

(* C15 for the completions whose time-of-day is in range and whose record  *)
(* has a start in range: the part of C15 the code does keep.               *)
C15_WellFormedCompletionTakesLastMatch ==
    [][(/\ Processed
        /\ IsCompletion(line')
        /\ SeveralInFlight(line')
        /\ line'.time \in ValidTimes
        /\ \A k \in InFlight(line'.slot, line'.unit) : IsIsoformat(started[k].start))
       => CompletedFrom(line', LastOf(InFlight(line'.slot, line'.unit)))]_vars

(* C16 as stated: when several in-flight records have the (slot, unit) of  *)
(* a dump message, the earliest inserted of them is removed, and only it,  *)
(* whatever the slot.                                                      *)
C16_DumpTakesFirstMatch ==
    [][(Processed /\ IsDump(line') /\ SeveralInFlight(line'))
       => started' = RemoveAt(started, FirstOf(InFlight(line'.slot, line'.unit)))]_vars

(* C16 amended: the same for a slot that has a slot type; for any other    *)
(* slot the dump line raises and every matching record stays in flight.    *)
C16_MappedDumpTakesFirstMatch ==
    [][(Processed /\ IsDump(line') /\ SeveralInFlight(line'))
       => IF line'.slot \in DOMAIN FS_MAPPING
          THEN started' = RemoveAt(started, FirstOf(InFlight(line'.slot, line'.unit)))
          ELSE exc' /\ started' = started]_vars

\* a dump has left the later inserted of two records of its (slot, unit)
C16_Witness ==
    /\ pc = "loop"
    /\ IsMsg(line)
    /\ Len(started) = 1
    /\ started[1].slot = line.slot
    /\ started[1].unit = line.unit
    /\ started[1].project = "200"
    /\ Entry(dumped, current_date, "CPU") = 1


(* C17: an assignment event whose triple is not in flight appends a new    *)
(* record with that triple and the timestamp of the line after all the     *)
(* records in flight, whatever the slot and whether or not it is idle.     *)
C17_NewAssignmentIsAppended ==
    [][(Processed /\ IsAssignment(line') /\ InFlightTriple(line') = {})
       => started' = Append(started, EntryOf(line'))]_vars

(* C17 for the assignments on a slot that is not idle, or that has a slot  *)
(* type and comes with a time-of-day in range: the part of C17 the code    *)
(* does keep.                                                              *)
C17_NewAssignmentIsAppendedUnlessIdleRaises ==
    [][(/\ Processed
        /\ IsAssignment(line')
        /\ InFlightTriple(line') = {}
        /\ \/ line'.slot \notin DOMAIN waiting
           \/ line'.slot \in DOMAIN FS_MAPPING /\ line'.time \in ValidTimes)
       => started' = Append(started, EntryOf(line'))]_vars


\* the line is an assignment that closes an idle interval, or a dump that
\* counts a record: the operations of ingestion that need the slot type
NeedsSlotType(ln) ==
    \/ IsAssignment(ln) /\ ln.slot \in DOMAIN waiting /\ ln.time \in ValidTimes
    \/ IsDump(ln) /\ InFlight(ln.slot, ln.unit) # {}

\* a completed record has a slot without a slot type
UnmappedCompleted == \E k \in DOMAIN scores : scores[k].slot \notin DOMAIN FS_MAPPING

IsDiagnostic(ln) == Has(ln, "job_msg") /\ ~Has(ln, "project_id")

\* a job-scoped diagnostic whose message contains "Program"
IsProgramDiagnostic(ln) ==
    IsDiagnostic(ln) /\ Has(ln, "job_msg_msg") /\ Contains("Program", ln.job_msg_msg)

(* C19: errors grows by the timestamp of the line, at its end, when a      *)
(* job-scoped diagnostic whose message contains "Program" is processed,    *)
(* and is unchanged by every other step; a job-scoped diagnostic changes   *)
(* nothing on the board but errors.                                        *)
C19_ErrorsGrowOnProgramDiagnostics ==
    [][/\ IF Processed /\ IsProgramDiagnostic(line')
          THEN errors' = Append(errors, generate_timestamp(current_date, line'.time))
          ELSE errors' = errors
       /\ (Processed /\ IsDiagnostic(line'))
            => UNCHANGED <<scores, started, waiting, waited, dumped>>]_vars

\* a second "Program" diagnostic has been recorded on a board that holds a
\* record in flight
C19_Witness ==
    /\ pc = "loop"
    /\ IsProgramDiagnostic(line)
    /\ Len(errors) = 2
    /\ errors[2] = generate_timestamp(current_date, line.time)
    /\ started # <<>>


\* no entry of idle_total is removed or made smaller by the step
IdleTotalGrows ==
    \A d \in DOMAIN waited : \A fs \in DOMAIN waited[d] :
        HasEntry(waited', d, fs) /\ waited'[d][fs] >= waited[d][fs]

\* the step is an assignment whose timestamp is earlier than the failure
\* that marked its slot idle
ClosesBackwards ==
    /\ Processed
    /\ IsAssignment(line')
    /\ line'.slot \in DOMAIN waiting
    /\ line'.time \in ValidTimes
    /\ fromisoformat(generate_timestamp(current_date, line'.time)) < waiting[line'.slot]

(* C20: every entry of idle_total is a non-negative duration and no step   *)
(* makes it smaller, whatever the order of the times-of-day of the         *)
(* failed-assignment and assignment lines.                                 *)
C20_IdleTotalIsMonotone ==
    /\ [](\A d \in DOMAIN waited : \A fs \in DOMAIN waited[d] : waited[d][fs] >= 0)
    /\ [][IdleTotalGrows]_vars

(* C20 for the assignments that are not earlier than the failure that      *)
(* marked their slot idle: the part of C20 the code does keep.             *)
C20_IdleTotalGrowsForward ==
    [][~ClosesBackwards => IdleTotalGrows]_vars

====
